---- MODULE Spec2Model ----
(***************************************************************************)
(* dotenvx-interactive-cli: an interactive front-end over the dotenvx      *)
(* ("vault tool") command line.  The repository holds four programs that   *)
(* implement the same workflow:                                            *)
(*   "effect" : src/unnamed/part_000, lines 175-522 (@effect/cli, 0.4.0)   *)
(*   "node"   : src/unnamed/part_001 (inquirer menu, child_process.spawn)  *)
(*   "zx"     : src/src/index.ts, lines 1-268 (inquirer menu, zx)          *)
(*   "bun"    : src/unnamed/part_000, lines 1-173 (inquirer menu, bun $)   *)
(* One run of one program is one behaviour; `variant` says which program.  *)
(*                                                                         *)
(* Text is modelled as a sequence of tokens: a file name such as           *)
(* ".env.local" is <<".env", ".local">>, and " " is the one token that a   *)
(* shell treats as a word separator.  No token is a prefix or a suffix of  *)
(* another, so startsWith/endsWith on the text are decided by the first    *)
(* and the last token.                                                     *)
(***************************************************************************)
EXTENDS Integers, Sequences, FiniteSets, TLC

VARIABLES
    variant,               \* which of the four programs runs
    argv,                  \* command line: [cmd, files, help]
    which,                 \* outcome of looking dotenvx up on the PATH
    dir,                   \* working directory, in enumeration order
    keysAccess,            \* outcome of fs.access on the key file: "ok", "fault"
    pc,                    \* position of the run
    isDotenvxInstalled,    \* result of checkDotenvxInstallation once it ran
    isEnvKeysFilePresent,  \* result of checkEnvKeysFile once it ran
    action,                \* the action being run
    envFiles,              \* result of findEnvFiles
    confirmed,             \* values the checkbox prompt returned
    promptError,           \* message the open prompt shows after a rejected Enter
    selectedFiles,         \* files the action works on
    spawnArgs,             \* arguments executeCommand was called with
    childArgv,             \* arguments the dotenvx child process receives
    child,                 \* "none", "running", "closed", "failed",
                           \* "failed_closed" ('close' after 'error')
    status,                \* status the child ended with, NoStatus before
    chunksLeft,            \* output chunks the child may still write
    stdoutBuf,             \* captured stdout
    stderrBuf,             \* captured stderr
    mirrorOut,             \* chunks written to the parent's stdout
    mirrorErr,             \* chunks written to the parent's stderr
    result,                \* the ExecutionResult, or NoResult
    outcomes,              \* what executeCommand delivered to its caller
    arrivedOut,            \* chunks the child wrote to its stdout, in order
    arrivedErr,            \* chunks the child wrote to its stderr, in order
    out,                   \* messages the program printed, in order
    events,                \* steps that touched the outside world, in order
    exitCode               \* process exit code, NotExited while running

envVars   == <<variant, argv, which, dir, keysAccess>>
probeVars == <<isDotenvxInstalled, isEnvKeysFilePresent>>
selVars   == <<envFiles, confirmed, promptError, selectedFiles>>
childVars == <<spawnArgs, childArgv, child, status, chunksLeft, stdoutBuf, stderrBuf,
               mirrorOut, mirrorErr, result, outcomes, arrivedOut, arrivedErr>>
vars == <<variant, argv, which, dir, keysAccess, pc, isDotenvxInstalled,
          isEnvKeysFilePresent, action, envFiles, confirmed, promptError,
          selectedFiles,
          spawnArgs, childArgv, child, status, chunksLeft, stdoutBuf,
          stderrBuf, mirrorOut, mirrorErr, result, outcomes, arrivedOut,
          arrivedErr, out, events, exitCode>>

----------------------------------------------------------------------------
(* Bounds *)

MaxFiles == 3      \* entries in the working directory
MaxArgs == 2       \* explicit file arguments on the command line
MaxChunks == 2     \* output chunks a child writes

----------------------------------------------------------------------------
(* Values *)

Variants == {"effect", "node", "zx", "bun"}
FileActions == {"encrypt", "decrypt"}
Actions == {"encrypt", "decrypt", "precommit"}

NotExited == -1
KilledBySignal == 130    \* no SIGINT handler: the default action ends the process
NullCode == -1            \* child status null (killed by a signal)
ChildCodes == {0, 2, NullCode}
NoStatus == -2
NoResult == [stdout |-> <<>>, stderr |-> <<>>, exitCode |-> -2]

EnvFile == <<".env">>
KeysFile == <<".env", ".keys">>
KeysJson == <<".env", ".keys", ".json">>
VaultFile == <<".env", ".vault">>
LocalFile == <<".env", ".local">>
LocalKeys == <<".env", ".local", ".keys">>
CopyFile == <<".env", " ", "copy">>
Readme == <<"README">>
OtherPath == <<"other">>
ALL == <<"ALL">>

File(n) == [name |-> n, isDir |-> FALSE]
Directory(n) == [name |-> n, isDir |-> TRUE]

Range(s) == {s[i] : i \in 1..Len(s)}
NoRepeat(s) == \A i, j \in 1..Len(s) : i # j => s[i] # s[j]
NoRepeatName(s) == \A i, j \in 1..Len(s) : i # j => s[i].name # s[j].name

RECURSIVE SeqsUpTo(_, _)
SeqsUpTo(S, n) ==
    IF n = 0 THEN {<<>>}
    ELSE LET shorter == SeqsUpTo(S, n - 1)
         IN  shorter \cup {Append(s, x) : s \in {t \in shorter : Len(t) = n - 1},
                                          x \in S}

Msg(k) == [kind |-> k, text |-> <<>>]
MsgText(k, t) == [kind |-> k, text |-> t]
Printed(k) == \E i \in 1..Len(out) : out[i].kind = k
Happened(e) == \E i \in 1..Len(events) : events[i] = e

----------------------------------------------------------------------------
(* Pure functions of the programs *)

startsWith(name, tok) == Len(name) > 0 /\ name[1] = tok
endsWith(name, tok) == Len(name) > 0 /\ name[Len(name)] = tok

\* the glob without its ignore list
globEnvNoIgnore(d) ==
    SelectSeq(d, LAMBDA e : startsWith(e.name, ".env") /\ ~e.isDir)

\* glob(".env*", {ignore: [".env.keys", ".env.keys.json", "*.vault"], nodir})
globEnv(d) ==
    SelectSeq(d, LAMBDA e : /\ startsWith(e.name, ".env")
                            /\ ~e.isDir
                            /\ e.name # KeysFile
                            /\ e.name # KeysJson
                            /\ ~endsWith(e.name, ".vault"))

NamesOf(s) == [i \in 1..Len(s) |-> s[i].name]

\* findEnvFiles: the glob, then the filter on the suffixes
findEnvFiles(d) ==
    SelectSeq(NamesOf(globEnv(d)),
              LAMBDA f : ~endsWith(f, ".keys") /\ ~endsWith(f, ".vault"))

\* choices of the checkbox prompt: the synthetic "ALL", then one per file
choicesOf(files) == <<ALL>> \o files

\* what the checkbox returns when the choices at the indices in m are marked
answerOf(files, m) ==
    LET c == choicesOf(files)
        RECURSIVE pick(_)
        pick(i) == IF i > Len(c) THEN <<>>
                   ELSE (IF i \in m THEN <<c[i]>> ELSE <<>>) \o pick(i + 1)
    IN  pick(1)

\* the answer without the "ALL" branch
selectFilesNoExpand(files, answer) ==
    SelectSeq(answer, LAMBDA x : x # ALL)

\* selectFiles / selectFilesInteractively after the prompt returned `answer`
selectFiles(files, answer) ==
    IF ALL \in Range(answer) THEN files ELSE answer

\* validate of the inquirer checkbox; the @inquirer/prompts checkbox of the
\* effect program is called without validate or required
validate(v, answer) == v = "effect" \/ Len(answer) > 0

\* checkDotenvxInstallation: `which dotenvx` (or `dotenvx --version`) exits 0
checkDotenvxInstallation(w) == w = "found"

\* is there an entry for the key file (a regular file for the bun program,
\* whose glob runs with nodir)
keyFileEntry(v, d) ==
    \E i \in 1..Len(d) : /\ d[i].name = KeysFile
                         /\ (v = "bun" => ~d[i].isDir)

\* the check without its catch: a fault of the lookup is raised
toolCheckRaisesUncaught(w) == w = "fault"

\* does checkDotenvxInstallation raise: try { ... } catch { return false }
toolCheckRaises(w) == FALSE

\* does checkEnvKeysFile raise: catch { return false },
\* Effect.catchAll(() => Effect.succeed(false)); the glob of the bun program
\* reads an unreadable directory as empty
keysCheckRaises(acc) == FALSE

\* checkEnvKeysFile: fs.access(".env.keys") resolved, or the glob found it
checkEnvKeysFile(v, d, acc) == acc = "ok" /\ keyFileEntry(v, d)

\* the help flag left unread
helpIgnored(v, a) == FALSE

\* process.argv.includes("--help") || process.argv.includes("-h"); the
\* built-in --help of @effect/cli
helpRequested(v, a) == a.help /\ v # "bun"

\* process.on("SIGINT", ...) is registered by effect and node only
hasSigintHandler(v) == v \in {"effect", "node"}

\* [a, b, c].join(" ")
RECURSIVE join(_)
join(words) ==
    IF Len(words) = 0 THEN <<>>
    ELSE IF Len(words) = 1 THEN words[1]
    ELSE words[1] \o <<" ">> \o join(Tail(words))

\* the words a shell reads from a command line
RECURSIVE shellWords(_, _, _)
shellWords(line, cur, acc) ==
    IF Len(line) = 0
    THEN IF Len(cur) = 0 THEN acc ELSE Append(acc, cur)
    ELSE IF Head(line) = " "
         THEN shellWords(Tail(line), <<>>,
                         IF Len(cur) = 0 THEN acc ELSE Append(acc, cur))
         ELSE shellWords(Tail(line), Append(cur, Head(line)), acc)

\* every action given the "-f" form
argsForWithFiles(a, files) == <<<<a>>, <<"-f">>>> \o files

\* arguments the action hands to the subprocess runner
argsFor(a, files) ==
    IF a = "precommit" THEN <<<<"ext">>, <<"precommit">>, <<"--install">>>>
    ELSE <<<<a>>, <<"-f">>>> \o files

\* arguments the dotenvx process is started with
\*   effect, node: spawn(cmd, args, {shell: true}) joins cmd and args with
\*                 spaces and gives the line to the shell
\*   bun:          $`dotenvx encrypt ${{raw: "-f " + files.join(" ")}}`
\*   zx:           $([cmd, ...args]) is a template call without values, the
\*                 command is pieces[0] alone
receivedArgv(v, args) ==
    IF v = "zx" THEN <<>>
    ELSE Tail(shellWords(join(<<<<"dotenvx">>>> \o args), <<>>, <<>>))

\* the status handed on as it is
exitCodeRaw(code) == code

\* exitCode: code ?? 0
exitCodeOf(code) == IF code = NullCode THEN 0 ELSE code

\* a listener that never settles the call
resumeDropped(delivered, outcome) == delivered

\* resume of Effect.async, resolve of the Promise: the first call settles
\* the call of executeCommand, every later call is ignored
resume(delivered, outcome) ==
    IF Len(delivered) = 0 THEN <<outcome>> ELSE delivered

\* the chunk kept back instead of written
writeDeferred(stream, data) == stream

\* process.stdout.write(data), process.stderr.write(data)
write(stream, data) == Append(stream, data)

\* stdout += data.toString(), stderr += data.toString()
capture(buffer, data) == Append(buffer, data)

\* if (!isDotenvxInstalled)
toolMissing(installed) == ~installed

\* the key file check left out
keyFileNotChecked(present) == FALSE

\* if (!isEnvKeysFilePresent)
keyFileMissing(present) == ~present

\* the empty-list guard left out
noCandidatesNotChecked(files) == FALSE

\* if (files.length === 0) of selectFiles, if (envFiles.length === 0) of the
\* effect handlers
noCandidates(files) == Len(files) = 0

\* the catch without the ExitPromptError case
cancelErrorGeneric(name) == "Interactive selection failed"

\* the catch of selectFilesInteractively: the message of the Error it makes
cancelError(name) ==
    IF name = "ExitPromptError" THEN "User cancelled selection"
    ELSE "Interactive selection failed"

\* the guard on the selection left out
nothingSelectedNotChecked(files) == FALSE

\* if (filesToEncrypt.length === 0), the else of if (selectedFiles.length > 0)
nothingSelected(files) == Len(files) = 0

\* files the effect program works on once discovery was not empty:
\* Option.isSome(files) && files.value.length > 0
useProvidedFiles(files) == Len(files) > 0

\* the explicit files looked at before the result of discovery
discoveryBranchProvidedFirst(v, files, provided) ==
    IF v = "effect" /\ useProvidedFiles(provided) THEN "provided"
    ELSE IF noCandidates(files) THEN "empty"
    ELSE "prompt"

\* what follows findEnvFiles: the report that nothing was found, the
\* explicit files of the command line (effect), or the checkbox prompt
discoveryBranch(v, files, provided) ==
    IF noCandidates(files) THEN "empty"
    ELSE IF v = "effect" /\ useProvidedFiles(provided) THEN "provided"
    ELSE "prompt"

\* what the top-level handler of each program does with an error that
\* reaches it: the message it prints and the exit code of the process
\*   effect: Effect.catchAll(Console.error) turns the failure into a success
\*   node:   main().catch, ExitPromptError is friendly
\*   zx:     main().catch
\*   bun:    main().catch(console.error)
topLevel(v, err) ==
    CASE v = "effect" -> [msg |-> "error_occurred", code |-> 0]
      [] v = "node" -> IF err = "ExitPromptError"
                       THEN [msg |-> "prompt_exited", code |-> 0]
                       ELSE [msg |-> "error_occurred", code |-> 1]
      [] v = "zx" -> [msg |-> "error_occurred", code |-> 1]
      [] v = "bun" -> [msg |-> "error_logged", code |-> 0]

\* does the action inspect result.exitCode before it reports success
checksExitCode(v, a) ==
    \/ v = "effect"
    \/ v = "node" /\ a = "decrypt"

\* does the action see the child as failed: result.exitCode !== 0 where it
\* is inspected; bun's $ throws on every status other than 0
seenAsFailed(v, a, res, st) ==
    IF v = "bun" THEN st # 0
    ELSE checksExitCode(v, a) /\ res.exitCode # 0

----------------------------------------------------------------------------
(* Initial states: the program, its command line and its environment *)

MainNames == {EnvFile, KeysFile, CopyFile, LocalKeys}
PathArgs == {EnvFile, CopyFile, OtherPath}

DirsOver(names) ==
    {d \in SeqsUpTo({File(n) : n \in names} \cup {Directory(KeysFile)}, MaxFiles) :
        NoRepeatName(d)}

\* the effect program has subcommands and file arguments; the menu programs
\* read nothing from the command line but the help flag
ArgvOf(v) ==
    IF v = "effect"
    THEN {[cmd |-> c, files |-> <<>>, help |-> h] :
             c \in {"none"} \cup Actions, h \in BOOLEAN}
         \cup {[cmd |-> c, files |-> f, help |-> FALSE] :
             c \in FileActions, f \in SeqsUpTo(PathArgs, MaxArgs) \ {<<>>}}
    ELSE {[cmd |-> "none", files |-> <<>>, help |-> h] : h \in BOOLEAN}

InitRun ==
    /\ pc = "start"
    /\ isDotenvxInstalled = FALSE
    /\ isEnvKeysFilePresent = FALSE
    /\ action = "none"
    /\ envFiles = <<>>
    /\ confirmed = <<>>
    /\ promptError = "none"
    /\ selectedFiles = <<>>
    /\ spawnArgs = <<>>
    /\ childArgv = <<>>
    /\ child = "none"
    /\ status = NoStatus
    /\ chunksLeft = 0
    /\ stdoutBuf = <<>>
    /\ stderrBuf = <<>>
    /\ mirrorOut = <<>>
    /\ mirrorErr = <<>>
    /\ result = NoResult
    /\ outcomes = <<>>
    /\ arrivedOut = <<>>
    /\ arrivedErr = <<>>
    /\ out = <<>>
    /\ events = <<>>
    /\ exitCode = NotExited

Init ==
    /\ variant \in Variants
    /\ argv \in ArgvOf(variant)
    /\ which \in {"found", "notfound", "fault"}
    /\ dir \in DirsOver(MainNames)
    /\ keysAccess \in {"ok", "fault"}
    /\ InitRun

----------------------------------------------------------------------------
(* Steps of a run *)

\* the process ends with exit code c after printing msgs
Exit(msgs, c) ==
    /\ out' = out \o msgs
    /\ exitCode' = c
    /\ pc' = "done"

\* an error reaches the top-level handler after msgs were printed
Throw(msgs, err) ==
    Exit(Append(msgs, Msg(topLevel(variant, err).msg)),
         topLevel(variant, err).code)

\* main / Command.run up to the prerequisite check: the help flag
Start ==
    /\ pc = "start"
    /\ IF helpRequested(variant, argv)
       THEN Exit(<<Msg("usage")>>, 0)
       ELSE /\ pc' = "probe_tool"
            /\ out' = out
            /\ exitCode' = exitCode
    /\ UNCHANGED <<envVars, probeVars, action, selVars, childVars, events>>

\* checkDotenvxInstallation runs first: it is synchronous in effect, node
\* and zx, and awaited before anything else in bun
ProbeTool ==
    /\ pc = "probe_tool"
    /\ IF toolCheckRaises(which)
       THEN /\ Throw(<<>>, "Error")
            /\ events' = Append(events, "probe_error")
            /\ UNCHANGED isDotenvxInstalled
       ELSE /\ isDotenvxInstalled' = checkDotenvxInstallation(which)
            /\ events' = Append(events, "probe_tool")
            /\ pc' = IF variant = "bun" THEN "gate_tool" ELSE "probe_keys"
            /\ UNCHANGED <<out, exitCode>>
    /\ UNCHANGED <<envVars, isEnvKeysFilePresent, action, selVars, childVars>>

\* bun: if (!isDotenvxInstalled) process.exit(1), before the key file check
GateTool ==
    /\ pc = "gate_tool"
    /\ IF toolMissing(isDotenvxInstalled)
       THEN Exit(<<Msg("install_hint")>>, 1)
       ELSE /\ pc' = "probe_keys"
            /\ out' = out
            /\ exitCode' = exitCode
    /\ UNCHANGED <<envVars, probeVars, action, selVars, childVars, events>>

\* checkEnvKeysFile, the second element of Effect.all / Promise.all
ProbeKeys ==
    /\ pc = "probe_keys"
    /\ IF keysCheckRaises(keysAccess)
       THEN /\ Throw(<<>>, "Error")
            /\ events' = Append(events, "probe_error")
            /\ UNCHANGED isEnvKeysFilePresent
       ELSE /\ isEnvKeysFilePresent' =
                   checkEnvKeysFile(variant, dir, keysAccess)
            /\ events' = Append(events, "probe_keys")
            /\ pc' = "gate"
            /\ UNCHANGED <<out, exitCode>>
    /\ UNCHANGED <<envVars, isDotenvxInstalled, action, selVars, childVars>>

\* validatePrerequisites after both checks, and what follows it when both
\* hold: the handler of the subcommand (effect) or the action menu
Gate ==
    /\ pc = "gate"
    /\ IF toolMissing(isDotenvxInstalled)
       THEN /\ Throw(<<Msg("install_hint")>>, "Error")
            /\ UNCHANGED <<action, events>>
       ELSE IF keyFileMissing(isEnvKeysFilePresent)
       THEN /\ IF variant = "bun"
               THEN Exit(<<Msg("keyfile_hint")>>, 1)
               ELSE Throw(<<Msg("keyfile_hint")>>, "Error")
            /\ UNCHANGED <<action, events>>
       ELSE IF variant # "effect"
       THEN /\ pc' = "menu"
            /\ out' = Append(out, Msg("installed_ok"))
            /\ events' = Append(events, "menu")
            /\ UNCHANGED <<action, exitCode>>
       ELSE IF argv.cmd = "none"
       THEN /\ Exit(<<Msg("installed_ok"), Msg("available_commands")>>, 0)
            /\ UNCHANGED <<action, events>>
       ELSE /\ pc' = IF argv.cmd = "precommit" THEN "spawn" ELSE "discover"
            /\ action' = argv.cmd
            /\ out' = Append(out, Msg("installed_ok"))
            /\ UNCHANGED <<events, exitCode>>
    /\ UNCHANGED <<envVars, probeVars, selVars, childVars>>

\* the operator picks an entry of the action menu
MenuPick(a) ==
    /\ pc = "menu"
    /\ IF a = "exit"
       THEN /\ IF variant = "bun"
               THEN Exit(<<>>, 0)
               ELSE Throw(<<>>, "Error")
            /\ events' = Append(events, "exit_pick")
            /\ UNCHANGED action
       ELSE /\ pc' = IF a = "precommit" THEN "spawn" ELSE "discover"
            /\ action' = a
            /\ UNCHANGED <<out, exitCode, events>>
    /\ UNCHANGED <<envVars, probeVars, selVars, childVars>>

\* the operator cancels the action menu: inquirer rejects with
\* ExitPromptError, which leaves main
MenuCancel ==
    /\ pc = "menu"
    /\ Throw(<<>>, "ExitPromptError")
    /\ events' = Append(events, "menu_cancel")
    /\ UNCHANGED <<envVars, probeVars, action, selVars, childVars>>

\* findEnvFiles and the branch on its result, up to the checkbox prompt
Discover ==
    /\ pc = "discover"
    /\ envFiles' = findEnvFiles(dir)
    /\ IF discoveryBranch(variant, envFiles', argv.files) = "empty"
       THEN /\ Exit(IF variant = "effect"
                    THEN <<Msg("no_env_files")>>
                    ELSE <<Msg("no_env_files"), Msg("no_files_selected")>>, 0)
            /\ events' = Append(events, "discover")
            /\ UNCHANGED selectedFiles
       ELSE IF discoveryBranch(variant, envFiles', argv.files) = "provided"
       THEN /\ selectedFiles' = argv.files
            /\ pc' = "spawn"
            /\ events' = Append(events, "discover")
            /\ UNCHANGED <<out, exitCode>>
       ELSE /\ pc' = "select"
            /\ events' = events \o <<"discover", "prompt">>
            /\ UNCHANGED <<selectedFiles, out, exitCode>>
    /\ UNCHANGED <<envVars, probeVars, action, confirmed, promptError,
                   childVars>>

\* the operator confirms the checkbox prompt with the choices in m marked
PromptConfirm(m) ==
    /\ pc = "select"
    /\ LET answer == answerOf(envFiles, m)
       IN  /\ validate(variant, answer)
           /\ confirmed' = answer
           /\ selectedFiles' = selectFiles(envFiles, answer)
    /\ IF nothingSelected(selectedFiles')
       THEN Exit(<<Msg("no_files_selected")>>, 0)
       ELSE /\ pc' = "spawn"
            /\ UNCHANGED <<out, exitCode>>
    /\ events' = Append(events, "confirm")
    /\ UNCHANGED <<envVars, probeVars, action, envFiles, promptError,
                   childVars>>

\* Enter with the choices in m marked is refused by validate: the prompt
\* stays open and shows the message
PromptReject(m) ==
    /\ pc = "select"
    /\ ~validate(variant, answerOf(envFiles, m))
    /\ promptError' = "select_at_least_one"
    /\ UNCHANGED <<envVars, probeVars, action, envFiles, confirmed,
                   selectedFiles, childVars, pc, out, events, exitCode>>

\* the operator cancels the checkbox prompt: it rejects with ExitPromptError
PromptCancel ==
    /\ pc = "select"
    /\ CASE variant = "effect" ->
                IF cancelError("ExitPromptError") = "User cancelled selection"
                THEN Exit(<<Msg("selection_cancelled")>>, 0)
                ELSE Throw(<<>>, "Error")
         [] variant = "bun" -> Exit(<<Msg("action_error")>>, 0)
         [] OTHER -> Throw(<<Msg("action_error")>>, "ExitPromptError")
    /\ events' = Append(events, "cancel")
    /\ UNCHANGED <<envVars, probeVars, action, selVars, childVars>>

\* executeCommand starts the child
Spawn ==
    /\ pc = "spawn"
    /\ spawnArgs' = argsFor(action, selectedFiles)
    /\ childArgv' = receivedArgv(variant, spawnArgs')
    /\ child' = "running"
    /\ chunksLeft' = MaxChunks
    /\ out' = IF variant = "effect" THEN Append(out, Msg("running")) ELSE out
    /\ events' = Append(events, "spawn")
    /\ pc' = "running"
    /\ UNCHANGED <<envVars, probeVars, action, selVars, status, stdoutBuf,
                   stderrBuf, mirrorOut, mirrorErr, result, outcomes,
                   arrivedOut, arrivedErr, exitCode>>

\* the chunk the child writes next: chunks are numbered as they are written
nextChunk == MaxChunks - chunksLeft + 1

\* 'data' on the child's stdout
ChildStdout ==
    /\ pc = "running"
    /\ chunksLeft > 0
    /\ chunksLeft' = chunksLeft - 1
    /\ arrivedOut' = Append(arrivedOut, nextChunk)
    /\ mirrorOut' = write(mirrorOut, nextChunk)
    /\ stdoutBuf' = capture(stdoutBuf, nextChunk)
    /\ UNCHANGED <<envVars, probeVars, action, selVars, spawnArgs, childArgv,
                   child, status, stderrBuf, mirrorErr, arrivedErr, result,
                   outcomes, out, events, exitCode, pc>>

\* 'data' on the child's stderr
ChildStderr ==
    /\ pc = "running"
    /\ chunksLeft > 0
    /\ chunksLeft' = chunksLeft - 1
    /\ arrivedErr' = Append(arrivedErr, nextChunk)
    /\ mirrorErr' = write(mirrorErr, nextChunk)
    /\ stderrBuf' = capture(stderrBuf, nextChunk)
    /\ UNCHANGED <<envVars, probeVars, action, selVars, spawnArgs, childArgv,
                   child, status, stdoutBuf, mirrorOut, arrivedOut, result,
                   outcomes, out, events, exitCode, pc>>

\* 'close': the child ended with status code; the listener settles the call
\* with the result
ChildClose(code) ==
    /\ pc = "running"
    /\ child' = "closed"
    /\ status' = code
    /\ result' = [stdout |-> stdoutBuf, stderr |-> stderrBuf,
                  exitCode |-> exitCodeOf(code)]
    /\ outcomes' = resume(outcomes, "result")
    /\ pc' = "report"
    /\ UNCHANGED <<envVars, probeVars, action, selVars, spawnArgs, childArgv,
                   chunksLeft, stdoutBuf, stderrBuf, mirrorOut, mirrorErr,
                   arrivedOut, arrivedErr, out, events, exitCode>>

\* 'error': the child could not be started.  effect settles the call with a
\* failure; node has no listener, the event is thrown, reaches
\* uncaughtException and the process exits before the call is settled
ChildError ==
    /\ pc = "running"
    /\ variant \in {"effect", "node"}
    /\ chunksLeft = MaxChunks
    /\ child' = "failed"
    /\ IF variant = "effect"
       THEN /\ outcomes' = resume(outcomes, "failure")
            /\ pc' = "spawn_failed"
            /\ UNCHANGED <<out, exitCode>>
       ELSE /\ Exit(<<Msg("unexpected_error")>>, 1)
            /\ UNCHANGED outcomes
    /\ UNCHANGED <<envVars, probeVars, action, selVars, spawnArgs, childArgv,
                   status, chunksLeft, stdoutBuf, stderrBuf, mirrorOut,
                   mirrorErr, result, arrivedOut, arrivedErr, events>>

\* 'close' after 'error': the close listener calls resume a second time
ChildCloseAfterError ==
    /\ pc = "spawn_failed"
    /\ child = "failed"
    /\ child' = "failed_closed"
    /\ outcomes' = resume(outcomes, "result")
    /\ UNCHANGED <<envVars, probeVars, action, selVars, spawnArgs, childArgv,
                   status, chunksLeft, stdoutBuf, stderrBuf, mirrorOut,
                   mirrorErr, result, arrivedOut, arrivedErr, out, events,
                   exitCode, pc>>

\* the failure of the call reaches the top-level handler (effect)
SpawnFailed ==
    /\ pc = "spawn_failed"
    /\ Len(outcomes) > 0
    /\ Throw(<<>>, "Error")
    /\ UNCHANGED <<envVars, probeVars, action, selVars, childVars, events>>

\* the action run once more after the runner returned
ReportThenAgain ==
    /\ pc = "report"
    /\ pc' = "spawn"
    /\ UNCHANGED <<envVars, probeVars, action, selVars, childVars, out,
                   events, exitCode>>

\* the action after the runner returned
Report ==
    /\ pc = "report"
    /\ Len(outcomes) > 0
    /\ IF seenAsFailed(variant, action, result, status)
       THEN CASE variant = "effect" ->
                   Throw(<<MsgText("failed", result.stderr)>>, "Error")
              [] variant = "node" ->
                   Exit(<<MsgText("failed", result.stderr)>>, 0)
              [] OTHER -> Exit(<<Msg("action_error")>>, 0)
       ELSE Exit(<<Msg("success")>>, 0)
    /\ UNCHANGED <<envVars, probeVars, action, selVars, childVars, events>>

\* SIGINT reaches the process while it waits.  effect and node print the
\* farewell and call process.exit(0); zx and bun register no handler
Sigint ==
    /\ pc \notin {"start", "done"}
    /\ IF hasSigintHandler(variant)
       THEN Exit(<<Msg("farewell")>>, 0)
       ELSE Exit(<<>>, KilledBySignal)
    /\ events' = Append(events, "sigint")
    /\ UNCHANGED <<envVars, probeVars, action, selVars, childVars>>

Next ==
    \/ Start
    \/ ProbeTool
    \/ GateTool
    \/ ProbeKeys
    \/ Gate
    \/ \E a \in Actions \cup {"exit"} : MenuPick(a)
    \/ Discover
    \/ MenuCancel
    \/ \E m \in SUBSET (1..Len(choicesOf(envFiles))) : PromptConfirm(m)
    \/ \E m \in SUBSET (1..Len(choicesOf(envFiles))) : PromptReject(m)
    \/ Sigint
    \/ PromptCancel
    \/ Spawn
    \/ ChildStdout
    \/ ChildStderr
    \/ \E code \in ChildCodes : ChildClose(code)
    \/ ChildError
    \/ ChildCloseAfterError
    \/ SpawnFailed
    \/ Report

Spec == Init /\ [][Next]_vars

\* every step but the interrupt: the steps of the program, the answers of
\* the operator to an open prompt and the events of a started child
Progress ==
    \/ Start
    \/ ProbeTool
    \/ GateTool
    \/ ProbeKeys
    \/ Gate
    \/ \E a \in Actions \cup {"exit"} : MenuPick(a)
    \/ Discover
    \/ MenuCancel
    \/ \E m \in SUBSET (1..Len(choicesOf(envFiles))) : PromptConfirm(m)
    \/ \E m \in SUBSET (1..Len(choicesOf(envFiles))) : PromptReject(m)
    \/ PromptCancel
    \/ Spawn
    \/ ChildStdout
    \/ ChildStderr
    \/ \E code \in ChildCodes : ChildClose(code)
    \/ ChildError
    \/ ChildCloseAfterError
    \/ SpawnFailed
    \/ Report

\* runs over directories of the env file and the key file
LiveNames == {EnvFile, KeysFile}

InitLive ==
    /\ variant \in Variants
    /\ argv \in ArgvOf(variant)
    /\ which \in {"found", "notfound", "fault"}
    /\ dir \in DirsOver(LiveNames)
    /\ keysAccess \in {"ok", "fault"}
    /\ InitRun

\* the event loop runs a continuation that is ready; an open prompt is
\* answered or cancelled and a started child ends or fails to start
SpecLive == InitLive /\ [][Next]_vars /\ WF_vars(Progress)

TypeOK ==
    /\ variant \in Variants
    /\ exitCode \in {NotExited, 0, 1, KilledBySignal}
    /\ (pc = "done") = (exitCode # NotExited)

----------------------------------------------------------------------------
(* File discovery on its own: runs that stop after findEnvFiles, over      *)
(* directories that hold every kind of name the exclusions speak of        *)

AllNames == {EnvFile, KeysFile, KeysJson, VaultFile, LocalFile, LocalKeys,
             Readme}

RichDirs ==
    {d \in SeqsUpTo({File(n) : n \in AllNames}
                    \cup {Directory(KeysFile), Directory(LocalFile)}, MaxFiles) :
        NoRepeatName(d)}

InitDiscover ==
    /\ variant \in Variants
    /\ argv \in {a \in ArgvOf(variant) :
                    /\ ~a.help
                    /\ a.files = <<>>
                    /\ variant = "effect" => a.cmd \in FileActions}
    /\ which = "found"
    /\ dir \in RichDirs
    /\ keysAccess = "ok"
    /\ InitRun

NextDiscover ==
    \/ Start
    \/ ProbeTool
    \/ GateTool
    \/ ProbeKeys
    \/ Gate
    \/ \E a \in FileActions : MenuPick(a)
    \/ Discover

SpecDiscover == InitDiscover /\ [][NextDiscover]_vars

----------------------------------------------------------------------------
(* Claims *)

RegularEnvEntries(d) ==
    {i \in 1..Len(d) : ~d[i].isDir /\ startsWith(d[i].name, ".env")}

\* C1 as stated: after discovery the result holds exactly the regular files
\* whose name begins with ".env", minus ".env.keys", ".env.keys.json" and the
\* files that end in ".vault"
C1_AsStated ==
    Happened("discover") =>
        Range(envFiles) =
            {dir[i].name : i \in {j \in RegularEnvEntries(dir) :
                /\ dir[j].name \notin {KeysFile, KeysJson}
                /\ ~endsWith(dir[j].name, ".vault")}}

\* C1 amended: after discovery the result holds exactly the regular files
\* whose name begins with ".env", minus ".env.keys.json", every file that ends
\* in ".keys" and every file that ends in ".vault", each once
C1_Discovery ==
    Happened("discover") =>
        /\ Range(envFiles) =
            {dir[i].name : i \in {j \in RegularEnvEntries(dir) :
                /\ dir[j].name # KeysJson
                /\ ~endsWith(dir[j].name, ".keys")
                /\ ~endsWith(dir[j].name, ".vault")}}
        /\ NoRepeat(envFiles)

C1_Witness ==
    /\ Happened("discover")
    /\ Len(envFiles) > 0
    /\ \E i \in RegularEnvEntries(dir) :
          endsWith(dir[i].name, ".keys") /\ dir[i].name # KeysFile

\* C2: when the confirmed choices of the prompt contain "ALL", the selection
\* is the whole candidate list in its order, whatever else was marked
C2_AllExpands ==
    (Len(confirmed) > 0 /\ ALL \in Range(confirmed)) => selectedFiles = envFiles

C2_Witness ==
    /\ ALL \in Range(confirmed)
    /\ Len(confirmed) = 2
    /\ Len(envFiles) = 2
    /\ selectedFiles = envFiles

\* C3: when discovery gave no candidate, the selection is empty and the
\* checkbox prompt is never shown
C3_EmptyShortCircuit ==
    (Happened("discover") /\ Len(envFiles) = 0) =>
        /\ ~Happened("prompt")
        /\ pc # "select"
        /\ selectedFiles = <<>>
        /\ confirmed = <<>>

C3_Witness ==
    /\ variant = "node"
    /\ Happened("discover")
    /\ Len(envFiles) = 0
    /\ Printed("no_files_selected")

\* C4 as stated: encrypt/decrypt with explicit files start dotenvx with the
\* arguments <subcommand, "-f", f1, ..., fn>, the supplied paths in their
\* order, and never show the prompt
C4_AsStated ==
    (variant = "effect" /\ Len(argv.files) > 0 /\ Happened("spawn")) =>
        /\ childArgv = <<<<action>>, <<"-f">>>> \o argv.files
        /\ ~Happened("prompt")

\* C5 as stated: when dotenvx is not reachable the run ends with exit code 1
C5_AsStated ==
    (/\ pc = "done"
     /\ ~Happened("sigint")
     /\ Happened("probe_tool")
     /\ ~isDotenvxInstalled) =>
        exitCode = 1

KeyFileAbsent == \A i \in 1..Len(dir) : dir[i].name # KeysFile

\* C6 as stated: when ".env.keys" is absent, a run that checks its
\* prerequisites ends with exit code 1 and has printed the "create a key
\* file" message, whether or not dotenvx is reachable (the effect program
\* and the node program)
C6_AsStated ==
    (/\ variant \in {"effect", "node"}
     /\ pc = "done"
     /\ ~Happened("sigint")
     /\ Happened("probe_tool")
     /\ KeyFileAbsent) =>
        /\ exitCode = 1
        /\ Printed("keyfile_hint")

GatedSteps == {"menu", "discover", "prompt", "spawn"}

\* C7: the action menu, discovery, the selection prompt and the dotenvx child
\* come only after both checks ran and both gave true
C7_GateBeforeActions ==
    \A i \in 1..Len(events) :
        events[i] \in GatedSteps =>
            /\ isDotenvxInstalled
            /\ isEnvKeysFilePresent
            /\ \E j \in 1..(i - 1) : events[j] = "probe_tool"
            /\ \E j \in 1..(i - 1) : events[j] = "probe_keys"

C7_Witness ==
    /\ Happened("menu")
    /\ Happened("discover")
    /\ Happened("prompt")
    /\ Happened("spawn")

ChildFailedStatus == child = "closed" /\ status \notin {0, NullCode}

\* C8 as stated: when the dotenvx child ends with a non-zero status the run
\* prints a failure message that holds the captured stderr and ends with
\* exit code 1
C8_AsStated ==
    (pc = "done" /\ ~Happened("sigint") /\ ChildFailedStatus) =>
        /\ exitCode = 1
        /\ \E i \in 1..Len(out) :
              out[i].kind = "failed" /\ out[i].text = stderrBuf

\* C9 as stated: no action prints its success message after the dotenvx
\* child ended with a non-zero status
C9_AsStated ==
    ChildFailedStatus => ~Printed("success")

\* C10: when the operator cancels the selection prompt, the run prints a
\* friendly message, ends with exit code 0 and starts no dotenvx child
\* (the effect program and the node program)
C10_CancelIsBenign ==
    (variant \in {"effect", "node"} /\ Happened("cancel")) =>
        /\ exitCode = 0
        /\ Printed("selection_cancelled") \/ Printed("prompt_exited")
        /\ ~Printed("error_occurred")
        /\ ~Happened("spawn")
        /\ child = "none"

C10_Witness ==
    /\ variant = "effect"
    /\ Happened("cancel")
    /\ Printed("selection_cancelled")
    /\ exitCode = 0

\* C11 as stated: after the operator picked "Exit" in the action menu the
\* process ends with exit code 0, no error is reported, and no discovery,
\* prompt or child follows
C11_AsStated ==
    Happened("exit_pick") =>
        /\ exitCode = 0
        /\ ~Printed("error_occurred")
        /\ ~Happened("discover")
        /\ ~Happened("prompt")
        /\ ~Happened("spawn")

\* C12: with --help or -h the run prints the usage and ends with exit code 0;
\* no check, discovery, menu, prompt or child takes place (effect, node, zx)
C12_HelpShortCircuit ==
    (argv.help /\ variant \in {"effect", "node", "zx"}) =>
        /\ pc \in {"start", "done"}
        /\ events = <<>>
        /\ child = "none"
        /\ pc = "done" => (exitCode = 0 /\ Printed("usage"))

C12_Witness ==
    /\ argv.help
    /\ variant = "node"
    /\ pc = "done"
    /\ out = <<Msg("usage")>>

\* C13 as stated: the dotenvx child receives exactly the sequence of
\* arguments the runner was called with, also when an argument holds a space
\* (effect, node and bun)
C13_AsStated ==
    (variant \in {"effect", "node", "bun"} /\ Happened("spawn")) =>
        childArgv = spawnArgs

\* C14 as stated: for a non-empty candidate list the prompt never returns an
\* empty confirmed selection (effect and node)
C14_AsStated ==
    (variant \in {"effect", "node"} /\ Happened("confirm")) =>
        Len(confirmed) > 0

\* C15 as stated: an interrupt of the operator, as a signal in any state or
\* as a cancelled prompt, leads to a farewell message and exit code 0
\* (effect, node and zx)
C15_AsStated ==
    (/\ variant \in {"effect", "node", "zx"}
     /\ \/ Happened("sigint")
        \/ Happened("cancel")
        \/ Happened("menu_cancel")) =>
        /\ exitCode = 0
        /\ \/ Printed("farewell")
           \/ Printed("selection_cancelled")
           \/ Printed("prompt_exited")

PrecommitArgs == <<<<"ext">>, <<"precommit">>, <<"--install">>>>

\* C16: the precommit action starts dotenvx with exactly the arguments
\* <ext, precommit, --install> and runs neither discovery nor the prompt
\* (effect, node and bun)
C16_PrecommitArgs ==
    (action = "precommit" /\ variant # "zx") =>
        /\ ~Happened("discover")
        /\ ~Happened("prompt")
        /\ Happened("spawn") =>
              (spawnArgs = PrecommitArgs /\ childArgv = PrecommitArgs)

C16_Witness ==
    /\ action = "precommit"
    /\ variant = "effect"
    /\ child = "closed"
    /\ childArgv = PrecommitArgs

\* C17: for encrypt and decrypt, when discovery finds nothing the run reports
\* that no .env files were found and ends with exit code 0, without prompt
\* and without child, also when files were given on the command line
C17_EmptyDiscoveryEnds ==
    (action \in FileActions /\ Happened("discover") /\ Len(envFiles) = 0) =>
        /\ pc = "done"
        /\ exitCode = 0
        /\ Printed("no_env_files")
        /\ ~Happened("prompt")
        /\ ~Happened("spawn")
        /\ child = "none"

C17_Witness ==
    /\ variant = "effect"
    /\ Len(argv.files) > 0
    /\ Happened("discover")
    /\ Len(envFiles) = 0
    /\ exitCode = 0

GateDecided ==
    Printed("install_hint") \/ Printed("keyfile_hint") \/ Printed("installed_ok")

\* C19 as stated: the gate decides only after both checks have completed, and
\* the pair it reads is the pair the environment determines (effect, node and
\* bun)
C19_AsStated ==
    (variant \in {"effect", "node", "bun"} /\ GateDecided) =>
        /\ Happened("probe_tool")
        /\ Happened("probe_keys")
        /\ isDotenvxInstalled = checkDotenvxInstallation(which)
        /\ isEnvKeysFilePresent = checkEnvKeysFile(variant, dir, keysAccess)

\* C20: the checks never fail: a lookup of dotenvx that exits non-zero or
\* faults gives false, a fault of the access to the key file gives false,
\* and no error of a check reaches the top-level handler
C20_ProbeNeverFails ==
    /\ ~Happened("probe_error")
    /\ (Happened("probe_tool") /\ which # "found") => ~isDotenvxInstalled
    /\ (Happened("probe_keys") /\ keysAccess = "fault") => ~isEnvKeysFilePresent
    /\ (pc = "done" /\ Printed("error_occurred")) =>
          \/ GateDecided
          \/ Happened("spawn")
          \/ Happened("exit_pick")
          \/ Happened("cancel")
          \/ Happened("menu_cancel")

C20_Witness ==
    /\ which = "fault"
    /\ keysAccess = "fault"
    /\ Happened("probe_tool")
    /\ Happened("probe_keys")
    /\ ~isDotenvxInstalled
    /\ ~isEnvKeysFilePresent

\* C21: for a child that terminates the runner returns a result, whatever the
\* status: exitCode is the status of the child when there is one, non-zero
\* included, and 0 when the status is null (effect, node, zx)
C21_ExitCodeOfResult ==
    (variant \in {"effect", "node", "zx"} /\ child = "closed") =>
        /\ outcomes = <<"result">>
        /\ result # NoResult
        /\ result.exitCode = IF status = NullCode THEN 0 ELSE status

C21_Witness ==
    /\ variant = "node"
    /\ child = "closed"
    /\ status = NullCode
    /\ outcomes = <<"result">>
    /\ result.exitCode = 0

ChildEnded == child \in {"closed", "failed", "failed_closed"}

\* C22 as stated: a call of the runner delivers exactly one outcome, a result
\* or a spawn failure, under every order of 'error', 'data' and 'close'; the
\* outcome is not delivered twice and not changed once delivered (effect and
\* node)
C22_AsStated ==
    /\ [](variant \in {"effect", "node"} =>
            /\ Len(outcomes) <= 1
            /\ ChildEnded => Len(outcomes) = 1)
    /\ [][outcomes # <<>> => (outcomes' = outcomes /\ result' = result)]_vars

\* C23: in every state the captured stdout (stderr) is the sequence of the
\* chunks that arrived on that stream, and so is what was written to the
\* parent's stdout (stderr); a chunk is written when it arrives, and the
\* result exists only after 'close' and holds the captured text (effect and
\* node)
C23_Tee ==
    variant \in {"effect", "node"} =>
        /\ mirrorOut = arrivedOut
        /\ stdoutBuf = arrivedOut
        /\ mirrorErr = arrivedErr
        /\ stderrBuf = arrivedErr
        /\ child = "running" => (result = NoResult /\ outcomes = <<>>)
        /\ result # NoResult =>
              /\ child = "closed"
              /\ result.stdout = arrivedOut
              /\ result.stderr = arrivedErr

C23_Witness ==
    /\ variant = "node"
    /\ child = "running"
    /\ arrivedOut = <<1, 2>>
    /\ mirrorOut = <<1, 2>>
    /\ stdoutBuf = <<1, 2>>

\* C24: every run ends: when an open prompt is answered or cancelled and a
\* started child ends or fails to start, the process exits, also when the
\* child cannot be started
C24_Terminates == <>(pc = "done")

C24_Witness ==
    /\ pc = "done"
    /\ child \in {"failed", "failed_closed"}
    /\ exitCode # NotExited
    /\ ~Happened("sigint")

SpawnsIn(log) == {i \in 1..Len(log) : log[i] = "spawn"}

\* C25: a run starts at most one dotenvx child, and no check, menu,
\* discovery, prompt or child follows the start of it
C25_OneChild ==
    /\ Cardinality(SpawnsIn(events)) <= 1
    /\ \A i \in SpawnsIn(events) : \A j \in (i + 1)..Len(events) :
          events[j] = "sigint"
    /\ ChildEnded => pc \in {"report", "spawn_failed", "done"}

C25_Witness ==
    /\ variant = "node"
    /\ pc = "done"
    /\ child = "closed"
    /\ Printed("success")
    /\ Cardinality(SpawnsIn(events)) = 1

\* the files the child receives after "-f"
ForwardedFiles == SubSeq(childArgv, 3, Len(childArgv))

\* C26 as stated: on the interactive path the files the vault tool is given
\* after "-f" are a non-empty selection of the candidates of discovery and
\* never hold the value ALL (effect and node)
C26_AsStated ==
    (/\ variant \in {"effect", "node"}
     /\ action \in FileActions
     /\ Happened("prompt")
     /\ Happened("spawn")) =>
        /\ Len(ForwardedFiles) > 0
        /\ \A i \in 1..Len(ForwardedFiles) :
              /\ ForwardedFiles[i] # ALL
              /\ \E j \in 1..Len(envFiles) : envFiles[j] = ForwardedFiles[i]

====
